---- MODULE Spec2Model ----
(***************************************************************************)
(* Workplace webhook server: signature verification, the subscription      *)
(* handshake, the object-handler registry and the per-request dispatcher.  *)
(*                                                                         *)
(* The repository holds two versions of the server:                        *)
(*   "single" : webhook/server.go, one callback route "/", handlers keyed  *)
(*              by object;                                                 *)
(*   "multi"  : the root server.go, handshake on "/webhook", handlers      *)
(*              keyed by pattern and object, one route per pattern.        *)
(* The variable `variant` says which of the two a behaviour runs.          *)
(*                                                                         *)
(* Strings and byte slices are sequences of one-chunk strings.  A chunk of *)
(* a payload stands for one lexical piece of the JSON text.                *)
(*                                                                         *)
(* One request is followed through the handler at a time, one step per     *)
(* statement group of the handler; registrations interleave with its       *)
(* steps.  Requests share nothing but the registry, which they only read.  *)
(***************************************************************************)
EXTENDS Integers, Sequences, FiniteSets, TLC

VARIABLES
    variant,            \* "single" | "multi"
    Secret,             \* Server.Secret
    AccessToken,        \* Server.AccessToken
    VerificationToken,  \* Server.VerificationToken
    objectHandlers,     \* Server.objectHandlers (NilMap until first registration)
    mux,                \* Server.mux: pattern -> kind of the handler installed
    serving,            \* ListenAndServe has been called and is accepting requests
    crashed,            \* a panic ended the process (duplicate mux pattern)
    lastReg,            \* history: key -> handler passed in the latest call for it
    writing,            \* the map assignment a HandleObjectFunc call is inside of
    pc,                 \* position of the request being handled
    req,                \* the request being handled
    stream,             \* r.Body: the bytes not yet consumed
    bufBody,            \* the handler's bufBody buffer
    sigErr,             \* result of verifySignature for this request
    decoded,            \* history: the bytes given to json.Unmarshal
    reads,              \* history: number of ReadFrom(r.Body) calls
    rb,                 \* the decoded envelope
    handler,            \* the handler found by the lookup
    invoked,            \* history: handler invocations made for this request
    resp,               \* the ResponseWriter: status and body
    vc                  \* verifySignature call under test (SpecVerify)

vars == <<variant, Secret, AccessToken, VerificationToken, objectHandlers, mux,
          serving, crashed, lastReg, writing, pc, req, stream, bufBody, sigErr,
          decoded, reads, rb, handler, invoked, resp, vc>>

config == <<variant, Secret, AccessToken, VerificationToken>>
server == <<objectHandlers, mux, serving, crashed, lastReg, writing>>
reqvars == <<pc, req, stream, bufBody, sigErr, decoded, reads, rb, handler,
             invoked, resp>>

----------------------------------------------------------------------------
(* Bounds *)

\* longest payload the verifySignature specification draws
MaxBodyLen == 3
\* bytes of the modelled digest (sha1.Size is 20; the model keeps the digest
\* fixed-width and injective on the payloads and secrets it draws)
DigestSize == 2

----------------------------------------------------------------------------
(* Strings *)

\* every chunk a secret or a payload is made of, in a fixed order
Alphabet == <<"{", "}", "P", "G", "k", "j">>

PayloadChunks == {"{", "}", "P", "G"}

HexDigits == <<"0", "1", "2", "3", "4", "5", "6", "7",
               "8", "9", "a", "b", "c", "d", "e", "f">>

RECURSIVE Pow(_, _)
Pow(b, n) == IF n = 0 THEN 1 ELSE b * Pow(b, n - 1)

SeqsUpTo(S, n) == UNION {[1..k -> S] : k \in 0..n}

\* strings.Split(s, sep)
RECURSIVE Split(_, _)
Split(s, sep) ==
    IF \A i \in 1..Len(s) : s[i] # sep
    THEN <<s>>
    ELSE LET i == CHOOSE i \in 1..Len(s) :
                      s[i] = sep /\ \A j \in 1..(i - 1) : s[j] # sep
         IN <<SubSeq(s, 1, i - 1)>> \o Split(SubSeq(s, i + 1, Len(s)), sep)

----------------------------------------------------------------------------
(* HMAC-SHA1 and hex encoding *)

ChunkCode(c) == CHOOSE i \in 1..Len(Alphabet) : Alphabet[i] = c

\* a string as a number, one-to-one
RECURSIVE Enc(_)
Enc(s) == IF s = <<>> THEN 0
          ELSE Enc(SubSeq(s, 1, Len(s) - 1)) * Len(Alphabet) + ChunkCode(s[Len(s)])

\* mac := hmac.New(sha1.New, secret); mac.Write(payload); mac.Sum(nil):
\* a keyed digest of DigestSize bytes, collision-free on the modelled inputs
HmacSha1(secret, payload) ==
    LET n == (Enc(secret) * Pow(Len(Alphabet), MaxBodyLen + 1) + Enc(payload))
                 % Pow(256, DigestSize)
    IN [i \in 1..DigestSize |-> (n \div Pow(256, DigestSize - i)) % 256]

\* hex.EncodeToString
HexEncode(bytes) ==
    [i \in 1..(2 * Len(bytes)) |->
        LET b == bytes[(i + 1) \div 2]
        IN IF i % 2 = 1 THEN HexDigits[(b \div 16) + 1] ELSE HexDigits[(b % 16) + 1]]

\* the platform's signer: "sha1=" followed by the hex HMAC-SHA1 of the body
Sign(payload, secret) == <<"s", "h", "a", "1", "=">> \o HexEncode(HmacSha1(secret, payload))

----------------------------------------------------------------------------
(* verifySignature *)

Nil == "nil"
ErrEmpty == "error: signature is empty"
ErrInvalid == "errors: invalid signature"
ErrMismatch == "error: signature hash do not match expected hash"

\* verifySignature comparing the element before the first "=" with the digest
verifySignature_FirstElement(sig, secret, payload) ==
    IF sig = <<>> THEN ErrEmpty
    ELSE LET elements == Split(sig, "=") IN
         IF Len(elements) < 2 THEN ErrInvalid
         ELSE IF elements[1] # HexEncode(HmacSha1(secret, payload))
              THEN ErrMismatch ELSE Nil

\* verifySignature that never compares the supplied hash with the digest
verifySignature_NoCompare(sig, secret, payload) ==
    IF sig = <<>> THEN ErrEmpty
    ELSE IF Len(Split(sig, "=")) < 2 THEN ErrInvalid ELSE Nil

\* verifySignature without its check for an empty header
verifySignature_NoEmptyCheck(sig, secret, payload) ==
    LET elements == Split(sig, "=") IN
    IF Len(elements) < 2 THEN ErrInvalid
    ELSE IF elements[2] # HexEncode(HmacSha1(secret, payload))
         THEN ErrMismatch ELSE Nil

verifySignature(sig, secret, payload) ==
    IF sig = <<>> THEN ErrEmpty
    ELSE LET elements == Split(sig, "=") IN
         IF Len(elements) < 2 THEN ErrInvalid
         ELSE LET signatureHash == elements[2]
                  expectedHash == HexEncode(HmacSha1(secret, payload))
              IN IF signatureHash # expectedHash THEN ErrMismatch ELSE Nil

----------------------------------------------------------------------------
(* Handshake parameters: r.ParseForm and r.FormValue *)

FormKeys == {"hub.mode", "hub.verify_token", "hub.challenge"}

\* marks a parameter the query string does not carry
Absent == <<"absent">>

\* the query string: parameter -> raw (still escaped) value
Query(mode, token, challenge) ==
    LET all == [k \in FormKeys |->
                   CASE k = "hub.mode" -> mode
                     [] k = "hub.verify_token" -> token
                     [] k = "hub.challenge" -> challenge]
    IN [k \in {x \in FormKeys : all[x] # Absent} |-> all[k]]

EmptyQuery == Query(Absent, Absent, Absent)

\* url.QueryUnescape: "+" is a space, "%2B" is a plus, "%zz" is no escape
UnescapeOk(raw) == \A i \in 1..Len(raw) : raw[i] # "%zz"

Unescape(raw) ==
    [i \in 1..Len(raw) |->
        CASE raw[i] = "+" -> " "
          [] raw[i] = "%2B" -> "+"
          [] OTHER -> raw[i]]

\* r.ParseForm on a GET: the query's pairs, unescaped; a pair that fails to
\* unescape is skipped and the error returned
ParseForm(query) ==
    [err |-> \E k \in DOMAIN query : ~UnescapeOk(query[k]),
     form |-> [k \in {x \in DOMAIN query : UnescapeOk(query[x])} |-> Unescape(query[k])]]

\* r.FormValue(key): the value of key, "" when absent
FormValue(form, key) == IF key \in DOMAIN form THEN form[key] ELSE <<>>

----------------------------------------------------------------------------
(* The ResponseWriter *)

StatusOK == 200
StatusBadRequest == 400
StatusForbidden == 403
StatusNotFound == 404

NoResp == [status |-> 0, body |-> <<>>]

\* w.WriteHeader(code), nothing written after it
WriteHeader(code) == [status |-> code, body |-> <<>>]

\* w.Write(b) with no WriteHeader before it: status 200 is implied
Write(b) == [status |-> StatusOK, body |-> b]

\* the handshake echoing hub.verify_token in place of hub.challenge
handshake_EchoToken(query, token) ==
    LET pf == ParseForm(query) IN
    IF pf.err THEN WriteHeader(StatusBadRequest)
    ELSE IF FormValue(pf.form, "hub.mode") = <<"subscribe">>
            /\ FormValue(pf.form, "hub.verify_token") = token
         THEN Write(FormValue(pf.form, "hub.verify_token"))
         ELSE WriteHeader(StatusForbidden)

\* the handshake comparing the token only, whatever hub.mode is
handshake_NoModeCheck(query, token) ==
    LET pf == ParseForm(query) IN
    IF pf.err THEN WriteHeader(StatusBadRequest)
    ELSE IF FormValue(pf.form, "hub.verify_token") = token
         THEN Write(FormValue(pf.form, "hub.challenge"))
         ELSE WriteHeader(StatusForbidden)

\* the GET branch of rootHandlerFunc / webhookHandlerFunc
handshake(query, token) ==
    LET pf == ParseForm(query) IN
    IF pf.err THEN WriteHeader(StatusBadRequest)
    ELSE IF FormValue(pf.form, "hub.mode") = <<"subscribe">>
            /\ FormValue(pf.form, "hub.verify_token") = token
         THEN Write(FormValue(pf.form, "hub.challenge"))
         ELSE WriteHeader(StatusForbidden)

----------------------------------------------------------------------------
(* json.Unmarshal into decode.RequestBody *)

\* The payload chunk "P" is the member "object":"page", "G" is "object":"group".
\* A JSON object without the member leaves Object at its zero value "".
Unmarshal(data) ==
    IF data = <<"{", "}">> THEN [err |-> FALSE, Object |-> ""]
    ELSE IF data = <<"{", "P", "}">> THEN [err |-> FALSE, Object |-> "page"]
    ELSE IF data = <<"{", "G", "}">> THEN [err |-> FALSE, Object |-> "group"]
    ELSE [err |-> TRUE, Object |-> ""]

NoEnvelope == [Object |-> "none"]

\* the bytes the parse step decodes: webhook/server.go's parsePostRequestBody
\* reads r.Body again into a fresh buffer, the root server.go decodes bufBody
parseInput(v, buf, strm) == IF v = "single" THEN strm ELSE buf

----------------------------------------------------------------------------
(* The handler registry *)

Handlers == {"h1", "h2"}
NoHandler == "none"
Objects == {"page", "group"}
RootPattern == "/"
WebhookPattern == "/webhook"
RawPatterns == {"/b"}

\* a Go map: nil until made
NilMap == [nil |-> TRUE, m |-> <<>>]
MapHas(mp, k) == k \in DOMAIN mp.m
MapPut(mp, k, x) == [nil |-> FALSE, m |-> (k :> x) @@ mp.m]

\* a registration that makes the pattern's inner map anew on every call
HandleObjectFuncMulti_RemakeInner(oh, pattern, object, h) ==
    LET made == IF oh.nil THEN [nil |-> FALSE, m |-> <<>>] ELSE oh
    IN MapPut(made, pattern, MapPut([nil |-> FALSE, m |-> <<>>], object, h))

\* webhook/server.go HandleObjectFunc(object, objectHandler)
HandleObjectFuncSingle(oh, object, h) ==
    LET made == IF oh.nil THEN [nil |-> FALSE, m |-> <<>>] ELSE oh
    IN MapPut(made, object, h)

\* server.go HandleObjectFunc(pattern, object, objectHandler)
HandleObjectFuncMulti(oh, pattern, object, h) ==
    LET made == IF oh.nil THEN [nil |-> FALSE, m |-> <<>>] ELSE oh
        inner == IF MapHas(made, pattern) THEN made.m[pattern]
                 ELSE [nil |-> FALSE, m |-> <<>>]
    IN MapPut(made, pattern, MapPut(inner, object, h))

\* a lookup by object alone, whatever pattern the handler was registered under
lookup_AnyPattern(v, oh, pattern, object) ==
    IF v = "single"
    THEN IF MapHas(oh, object) THEN oh.m[object] ELSE NoHandler
    ELSE LET pats == {p \in DOMAIN oh.m : MapHas(oh.m[p], object)} IN
         IF pats = {} THEN NoHandler
         ELSE oh.m[CHOOSE p \in pats : TRUE].m[object]

\* the lookup of the dispatch step: ws.objectHandlers[rb.Object], or
\* ws.objectHandlers[pattern] and then objectHandlerMap[reqBody.Object]
lookup(v, oh, pattern, object) ==
    IF v = "single"
    THEN IF MapHas(oh, object) THEN oh.m[object] ELSE NoHandler
    ELSE IF ~MapHas(oh, pattern) THEN NoHandler
         ELSE IF MapHas(oh.m[pattern], object) THEN oh.m[pattern].m[object]
              ELSE NoHandler

\* no HandleObjectFunc call is inside its map assignment
NoWrite == <<>>

\* the registry once the assignment w of a HandleObjectFunc call is done
Written(v, oh, w) ==
    IF v = "single"
    THEN HandleObjectFuncSingle(oh, w.object, w.h)
    ELSE HandleObjectFuncMulti(oh, w.pattern, w.object, w.h)

\* what a read of the registry can see: the map itself, or, when the read runs
\* while an assignment is under way (a data race), the map before or after it
MapReads(v, oh, w) == IF w = NoWrite THEN {oh} ELSE {oh, Written(v, oh, w)}

\* the keys HandleObjectFunc is called with: <<pattern, object>>; the
\* single-route server has no pattern and its keys carry "/"
RegKeys(v) ==
    IF v = "single" THEN {<<RootPattern, o>> : o \in Objects}
    ELSE {<<"/a", "page">>, <<"/a", "group">>, <<"/b", "page">>}

----------------------------------------------------------------------------
(* http.ServeMux *)

NoRoute == "no route"

NewMux(v) == IF v = "single" THEN (RootPattern :> "root")
             ELSE (WebhookPattern :> "webhook")

\* the pattern serving a path: the path itself, else the subtree root "/"
MuxMatch(m, path) ==
    IF path \in DOMAIN m THEN path
    ELSE IF RootPattern \in DOMAIN m THEN RootPattern
    ELSE NoRoute

RouteKind(m, pattern) == IF pattern = NoRoute THEN "none" ELSE m[pattern]

\* a method switch whose default branch runs the POST pipeline
methodBranch_DefaultPost(kind, method) ==
    CASE kind = "root" -> IF method = "GET" THEN "GET" ELSE "POST"
      [] kind = "webhook" -> IF method = "GET" THEN "GET" ELSE "default"
      [] kind = "object" -> "POST"
      [] OTHER -> "none"

\* a handshake handler that also takes the POST branch of the callback handler
methodBranch_WebhookPost(kind, method) ==
    CASE kind \in {"root", "webhook"} ->
             IF method \in {"GET", "POST"} THEN method ELSE "default"
      [] kind = "object" -> IF method = "POST" THEN "POST" ELSE "default"
      [] OTHER -> "none"

\* switch r.Method of rootHandlerFunc, webhookHandlerFunc and the handler
\* getObjectHandlerFunc returns: the branch taken
methodBranch(kind, method) ==
    CASE kind = "root" -> IF method \in {"GET", "POST"} THEN method ELSE "default"
      [] kind = "webhook" -> IF method = "GET" THEN "GET" ELSE "default"
      [] kind = "object" -> IF method = "POST" THEN "POST" ELSE "default"
      [] OTHER -> "none"

----------------------------------------------------------------------------
(* Inputs *)

Secrets == {<<"k">>, <<"j">>}

OtherSecret(s) == IF s = <<"k">> THEN <<"j">> ELSE <<"k">>

\* the secret and token pairs a server is constructed with
Configs == {[secret |-> <<"k">>, token |-> <<"t">>],
            [secret |-> <<"j">>, token |-> <<>>]}

Paths == {"/webhook", "/a", "/b"}

PostBodies == {<<>>, <<"{">>, <<"{", "}">>, <<"{", "P", "}">>, <<"{", "G", "}">>}

\* a payload that differs from b
Mutate(b) == IF b = <<>> THEN <<"{">> ELSE Tail(b)

\* the X-Hub-Signature headers sent along with body b to a server keyed by secret
SigsFor(b, secret) ==
    {<<>>,
     <<"s", "h", "a", "1">>,
     Sign(b, secret),
     Sign(b, OtherSecret(secret)),
     Sign(Mutate(b), secret),
     Sign(b, secret) \o <<"=", "x">>}

Queries ==
    {Query(m, t, c) :
        m \in {Absent, <<"subscribe">>, <<"unsubscribe">>},
        t \in {Absent, <<"t">>, <<"w">>},
        c \in {<<"x", "+", "%2B">>, <<"%zz">>}}
    \cup {Query(<<"subscribe">>, <<"t">>, Absent), Query(<<"subscribe">>, Absent, Absent)}

\* handshakes go to the handshake path; one GET goes to every other path
GetRequests ==
    {[method |-> "GET", path |-> WebhookPattern, sig |-> <<>>, body |-> <<>>,
      readErr |-> FALSE, query |-> q] : q \in Queries}
    \cup
    {[method |-> "GET", path |-> p, sig |-> <<>>, body |-> <<>>,
      readErr |-> FALSE, query |-> Query(<<"subscribe">>, <<"t">>, <<"x", "+", "%2B">>)] :
        p \in Paths}

Post(p, b, sg, e) ==
    [method |-> "POST", path |-> p, sig |-> sg, body |-> b, readErr |-> e,
     query |-> EmptyQuery]

\* every body under every header goes to "/a"; correctly signed events go to
\* every path, and so does one whose body cannot be read
PostRequests(secret) ==
    UNION {{Post("/a", b, sg, FALSE) : sg \in SigsFor(b, secret)} : b \in PostBodies}
    \cup {Post(p, b, Sign(b, secret), FALSE) :
              p \in Paths, b \in {<<"{", "P", "}">>, <<"{", "G", "}">>}}
    \cup {Post(p, <<"{", "P", "}">>, Sign(<<"{", "P", "}">>, secret), TRUE) : p \in Paths}

\* a PUT that carries both a handshake query and a signed event
OtherRequests(secret) ==
    {[method |-> "PUT", path |-> p, sig |-> Sign(<<"{", "P", "}">>, secret),
      body |-> <<"{", "P", "}">>, readErr |-> FALSE,
      query |-> Query(<<"subscribe">>, <<"t">>, <<"x", "+", "%2B">>)] : p \in Paths}

Requests(secret) == GetRequests \cup PostRequests(secret) \cup OtherRequests(secret)

NoRequest == [method |-> "none", path |-> "none", sig |-> <<>>, body |-> <<>>,
              readErr |-> FALSE, query |-> EmptyQuery, route |-> NoRoute]

VcIdle == [sig |-> <<>>, secret |-> <<>>, payload |-> <<>>, res |-> "idle"]

----------------------------------------------------------------------------
(* Construction *)

\* NewServer(secret, accessToken, verificationToken)
Init ==
    /\ variant \in {"single", "multi"}
    /\ \E c \in Configs : Secret = c.secret /\ VerificationToken = c.token
    /\ AccessToken = <<"a">>
    /\ objectHandlers = NilMap
    /\ mux = NewMux(variant)
    /\ serving = FALSE
    /\ crashed = FALSE
    /\ lastReg = <<>>
    /\ writing = NoWrite
    /\ pc = "Idle"
    /\ req = NoRequest
    /\ stream = <<>>
    /\ bufBody = <<>>
    /\ sigErr = "unchecked"
    /\ decoded = <<>>
    /\ reads = 0
    /\ rb = NoEnvelope
    /\ handler = NoHandler
    /\ invoked = <<>>
    /\ resp = NoResp
    /\ vc = VcIdle

\* no request is being handled
NoRequestInHand ==
    /\ pc' = "Idle"
    /\ req' = NoRequest
    /\ stream' = <<>>
    /\ bufBody' = <<>>
    /\ sigErr' = "unchecked"
    /\ decoded' = <<>>
    /\ reads' = 0
    /\ rb' = NoEnvelope
    /\ handler' = NoHandler
    /\ invoked' = <<>>
    /\ resp' = NoResp

\* a panic outside a request's goroutine ends the process and with it every
\* request in hand
Panic == crashed' = TRUE /\ serving' = FALSE /\ NoRequestInHand

----------------------------------------------------------------------------
(* Registration and start-up *)

\* HandleObjectFunc: callable before and while serving
HandleObjectFunc(pattern, object, h) ==
    /\ ~crashed
    /\ objectHandlers' =
          IF variant = "single"
          THEN HandleObjectFuncSingle(objectHandlers, object, h)
          ELSE HandleObjectFuncMulti(objectHandlers, pattern, object, h)
    /\ lastReg' = (<<pattern, object>> :> h) @@ lastReg
    /\ UNCHANGED <<config, mux, serving, crashed, writing, reqvars, vc>>

\* HandleFunc(pattern, handler): mux.HandleFunc panics on a pattern it holds
HandleFunc(pattern) ==
    /\ ~crashed
    /\ IF pattern \in DOMAIN mux
       THEN Panic /\ mux' = mux
       ELSE mux' = (pattern :> "raw") @@ mux
            /\ UNCHANGED <<crashed, serving, reqvars>>
    /\ UNCHANGED <<config, objectHandlers, lastReg, writing, vc>>

\* ListenAndServe: the multi-pattern server installs one route per registered
\* pattern, then both start serving
ListenAndServe ==
    /\ ~crashed
    /\ ~serving
    /\ LET pats == IF variant = "single" THEN {} ELSE DOMAIN objectHandlers.m IN
       IF pats \cap DOMAIN mux # {}
       THEN Panic /\ mux' = mux
       ELSE mux' = [p \in pats |-> "object"] @@ mux
            /\ serving' = TRUE
            /\ UNCHANGED <<crashed, reqvars>>
    /\ UNCHANGED <<config, objectHandlers, lastReg, writing, vc>>

----------------------------------------------------------------------------
(* One request *)

Respond(r) == resp' = r /\ pc' = "Responded"

Kind == RouteKind(mux, req.route)

\* a request arrives and the mux picks its handler
Receive(r) ==
    /\ serving /\ ~crashed
    /\ pc = "Idle"
    /\ pc' = "Received"
    /\ req' = [method |-> r.method, path |-> r.path, sig |-> r.sig,
               body |-> r.body, readErr |-> r.readErr, query |-> r.query,
               route |-> MuxMatch(mux, r.path)]
    /\ stream' = r.body
    /\ bufBody' = <<>>
    /\ sigErr' = "unchecked"
    /\ decoded' = <<>>
    /\ reads' = 0
    /\ rb' = NoEnvelope
    /\ handler' = NoHandler
    /\ invoked' = <<>>
    /\ resp' = NoResp
    /\ UNCHANGED <<config, server, vc>>

\* no pattern matches: the mux answers 404 itself
NotFound ==
    /\ pc = "Received" /\ ~crashed
    /\ req.route = NoRoute
    /\ Respond([status |-> StatusNotFound, body |-> <<"404 page not found">>])
    /\ UNCHANGED <<config, server, req, stream, bufBody, sigErr, decoded, reads,
                   rb, handler, invoked, vc>>

\* a route installed with HandleFunc: the caller's own handler answers
RawRoute ==
    /\ pc = "Received" /\ ~crashed
    /\ Kind = "raw"
    /\ Respond([status |-> StatusOK, body |-> <<"raw">>])
    /\ UNCHANGED <<config, server, req, stream, bufBody, sigErr, decoded, reads,
                   rb, handler, invoked, vc>>

\* case http.MethodGet of rootHandlerFunc and webhookHandlerFunc
Handshake ==
    /\ pc = "Received" /\ ~crashed
    /\ methodBranch(Kind, req.method) = "GET"
    /\ Respond(handshake(req.query, VerificationToken))
    /\ UNCHANGED <<config, server, req, stream, bufBody, sigErr, decoded, reads,
                   rb, handler, invoked, vc>>

\* the default branch of the three method switches
MethodForbidden ==
    /\ pc = "Received" /\ ~crashed
    /\ methodBranch(Kind, req.method) = "default"
    /\ Respond(WriteHeader(StatusForbidden))
    /\ UNCHANGED <<config, server, req, stream, bufBody, sigErr, decoded, reads,
                   rb, handler, invoked, vc>>

\* bufBody.ReadFrom(r.Body)
ReadBody ==
    /\ pc = "Received" /\ ~crashed
    /\ methodBranch(Kind, req.method) = "POST"
    /\ reads' = reads + 1
    /\ IF req.readErr
       THEN Respond(WriteHeader(StatusBadRequest)) /\ UNCHANGED <<stream, bufBody>>
       ELSE bufBody' = stream /\ stream' = <<>> /\ pc' = "BodyRead" /\ resp' = resp
    /\ UNCHANGED <<config, server, req, sigErr, decoded, rb, handler, invoked, vc>>

\* a signature check that answers with http.Error(w, err.Error(), 403)
CheckSignature_LeakError ==
    /\ pc = "BodyRead" /\ ~crashed
    /\ sigErr' = verifySignature(req.sig, Secret, bufBody)
    /\ IF sigErr' # Nil
       THEN Respond([status |-> StatusForbidden, body |-> <<sigErr'>>])
       ELSE pc' = "SignatureChecked" /\ resp' = resp
    /\ UNCHANGED <<config, server, req, stream, bufBody, decoded, reads, rb,
                   handler, invoked, vc>>

\* a signature check that writes 403 and, lacking the return, carries on
CheckSignature_NoReturn ==
    /\ pc = "BodyRead" /\ ~crashed
    /\ sigErr' = verifySignature(req.sig, Secret, bufBody)
    /\ resp' = IF sigErr' # Nil THEN WriteHeader(StatusForbidden) ELSE resp
    /\ pc' = "SignatureChecked"
    /\ UNCHANGED <<config, server, req, stream, bufBody, decoded, reads, rb,
                   handler, invoked, vc>>

\* verifySignature(r.Header.Get("X-Hub-Signature"), ws.Secret, bufBody.Bytes())
CheckSignature ==
    /\ pc = "BodyRead" /\ ~crashed
    /\ sigErr' = verifySignature(req.sig, Secret, bufBody)
    /\ IF sigErr' # Nil
       THEN Respond(WriteHeader(StatusForbidden))
       ELSE pc' = "SignatureChecked" /\ resp' = resp
    /\ UNCHANGED <<config, server, req, stream, bufBody, decoded, reads, rb,
                   handler, invoked, vc>>

\* the parse step: parsePostRequestBody(r), or json.Unmarshal(bufBody.Bytes())
Parse ==
    /\ pc = "SignatureChecked" /\ ~crashed
    /\ LET data == parseInput(variant, bufBody, stream)
           u == Unmarshal(data)
       IN /\ decoded' = Append(decoded, data)
          /\ reads' = IF variant = "single" THEN reads + 1 ELSE reads
          /\ stream' = IF variant = "single" THEN <<>> ELSE stream
          /\ IF u.err
             THEN Respond(WriteHeader(StatusBadRequest)) /\ rb' = rb
             ELSE rb' = [Object |-> u.Object] /\ pc' = "Parsed" /\ resp' = resp
    /\ UNCHANGED <<config, server, req, bufBody, sigErr, handler, invoked, vc>>

\* the registry lookup; an object without a handler is answered 200
Dispatch ==
    /\ pc = "Parsed" /\ ~crashed
    /\ \E oh \in MapReads(variant, objectHandlers, writing) :
         LET h == lookup(variant, oh, req.route, rb.Object) IN
         IF h = NoHandler
         THEN Respond(WriteHeader(StatusOK)) /\ handler' = handler
         ELSE handler' = h /\ pc' = "Dispatched" /\ resp' = resp
    /\ UNCHANGED <<config, server, req, stream, bufBody, sigErr, decoded, reads,
                   rb, invoked, vc>>

\* handler(rb): the callback's result decides between 200 and 400
Invoke(result) ==
    /\ pc = "Dispatched" /\ ~crashed
    /\ invoked' = Append(invoked, [handler |-> handler, envelope |-> rb,
                                   result |-> result])
    /\ Respond(WriteHeader(IF result = "err" THEN StatusBadRequest ELSE StatusOK))
    /\ UNCHANGED <<config, server, req, stream, bufBody, sigErr, decoded, reads,
                   rb, handler, vc>>

\* the handler returns and the server waits for the next request
Finish ==
    /\ pc = "Responded" /\ ~crashed
    /\ NoRequestInHand
    /\ UNCHANGED <<config, server, vc>>

Next ==
    \/ \E k \in RegKeys(variant), h \in Handlers : HandleObjectFunc(k[1], k[2], h)
    \/ \E p \in RawPatterns : HandleFunc(p)
    \/ ListenAndServe
    \/ \E r \in Requests(Secret) : Receive(r)
    \/ NotFound
    \/ RawRoute
    \/ Handshake
    \/ MethodForbidden
    \/ ReadBody
    \/ CheckSignature
    \/ Parse
    \/ Dispatch
    \/ \E result \in {"nil", "err"} : Invoke(result)
    \/ Finish

Spec == Init /\ [][Next]_vars

----------------------------------------------------------------------------
(* verifySignature on its own: every payload up to MaxBodyLen chunks, both  *)
(* secrets, and the headers a sender can build around the payload           *)

Payloads == SeqsUpTo(PayloadChunks, MaxBodyLen)

\* the payloads one chunk away from b: one chunk replaced, or the last dropped
Neighbours(b) ==
    {x \in Payloads : /\ Len(x) = Len(b)
                      /\ Cardinality({i \in 1..Len(b) : x[i] # b[i]}) = 1}
    \cup (IF b = <<>> THEN {} ELSE {SubSeq(b, 1, Len(b) - 1)})

Digest(secret, payload) == HexEncode(HmacSha1(secret, payload))

VerifySigs(b, secret) ==
    {<<>>,
     <<"s", "h", "a", "1">>,
     <<"s", "h", "a", "1", "=">>,
     Digest(secret, b),
     <<"=">> \o Digest(secret, b),
     Sign(b, secret),
     Sign(b, OtherSecret(secret)),
     Sign(b, secret) \o <<"=", "x">>,
     <<"s", "h", "a", "1", "=", "x", "=">> \o Digest(secret, b)}
    \cup {Sign(x, secret) : x \in Neighbours(b)}

VerifyInputs ==
    UNION {UNION {{[sig |-> sg, secret |-> s, payload |-> b, res |-> "pending"] :
                      sg \in VerifySigs(b, s)} : b \in Payloads} : s \in Secrets}

VerifyInit ==
    /\ variant = "multi"
    /\ Secret = <<"k">>
    /\ VerificationToken = <<"t">>
    /\ AccessToken = <<"a">>
    /\ objectHandlers = NilMap
    /\ mux = NewMux(variant)
    /\ serving = FALSE
    /\ crashed = FALSE
    /\ lastReg = <<>>
    /\ writing = NoWrite
    /\ pc = "Idle"
    /\ req = NoRequest
    /\ stream = <<>>
    /\ bufBody = <<>>
    /\ sigErr = "unchecked"
    /\ decoded = <<>>
    /\ reads = 0
    /\ rb = NoEnvelope
    /\ handler = NoHandler
    /\ invoked = <<>>
    /\ resp = NoResp
    /\ vc \in VerifyInputs

\* err := verifySignature(sig, secret, payload)
VerifyCall ==
    /\ vc.res = "pending"
    /\ vc' = [vc EXCEPT !.res = verifySignature(vc.sig, vc.secret, vc.payload)]
    /\ UNCHANGED <<config, server, reqvars>>

VerifyNext == VerifyCall

SpecVerify == VerifyInit /\ [][VerifyNext]_vars

VerifyDone == vc.res \notin {"idle", "pending"}

HasSeparator(sig) == \E i \in 1..Len(sig) : sig[i] = "="

\* the text after the only "=" of a header of the form <algorithm>=<hexHash>
HashPortion(sig) ==
    LET i == CHOOSE i \in 1..Len(sig) : sig[i] = "=" IN SubSeq(sig, i + 1, Len(sig))

Canonical(sig) == Cardinality({i \in 1..Len(sig) : sig[i] = "="}) = 1

\* C9: for every body B and secret S, verifySignature of the header "sha1="
\* followed by the hex HMAC-SHA1 of B under S, with S and B, returns no error.
C9_SignedVerifies ==
    (VerifyDone /\ vc.sig = Sign(vc.payload, vc.secret)) => vc.res = Nil

C9_Witness ==
    /\ VerifyDone
    /\ vc.sig = Sign(vc.payload, vc.secret)
    /\ Len(vc.payload) = MaxBodyLen
    /\ vc.res = Nil

\* C10: verifySignature fails with one of three distinguishable errors, chosen
\* in this order: the empty-header error for an empty header; otherwise the
\* invalid-signature error for a header without "="; otherwise the mismatch
\* error when the hash of a header <algorithm>=<hexHash> differs from the
\* digest, which is the outcome for Sign(B, S) checked against any other body.
C10_ErrorOrder ==
    /\ Cardinality({Nil, ErrEmpty, ErrInvalid, ErrMismatch}) = 4
    /\ VerifyDone =>
         /\ vc.res \in {Nil, ErrEmpty, ErrInvalid, ErrMismatch}
         /\ (vc.sig = <<>>) <=> (vc.res = ErrEmpty)
         /\ (vc.sig # <<>> /\ ~HasSeparator(vc.sig)) <=> (vc.res = ErrInvalid)
         /\ (Canonical(vc.sig) /\ HashPortion(vc.sig) # Digest(vc.secret, vc.payload))
               => vc.res = ErrMismatch
         /\ (\E b \in Payloads : b # vc.payload /\ vc.sig = Sign(b, vc.secret))
               => vc.res = ErrMismatch

C10_Witness ==
    /\ VerifyDone
    /\ vc.res = ErrMismatch
    /\ \E b \in Neighbours(vc.payload) :
          Len(b) = Len(vc.payload) /\ vc.sig = Sign(b, vc.secret)

----------------------------------------------------------------------------
(* Vocabulary of the dispatcher's properties *)

\* the request in hand is a POST that the mux gave to a callback handler and
\* whose body was read to its end
CallbackPost ==
    /\ pc # "Idle"
    /\ req.method = "POST"
    /\ Kind \in {"root", "object"}
    /\ ~req.readErr

\* the header is the platform's signature of the body under the server's secret
ValidSignature == req.sig = Sign(req.body, Secret)

\* the header is missing, has no "=", or carries another digest than the body's
InvalidSignature ==
    \/ req.sig = <<>>
    \/ ~HasSeparator(req.sig)
    \/ Canonical(req.sig) /\ HashPortion(req.sig) # Digest(Secret, req.body)

\* the body is a JSON object that carries the Object discriminator
WellFormed(body) == body \in {<<"{", "P", "}">>, <<"{", "G", "}">>}

ObjectOf(body) == IF body = <<"{", "P", "}">> THEN "page" ELSE "group"

\* the registry key a request's event is dispatched under
EventKey ==
    <<IF variant = "single" THEN RootPattern ELSE req.route, ObjectOf(req.body)>>

\* some HandleObjectFunc call has been made for the key
Registered(k) == k \in DOMAIN lastReg

\* this step produces the response
Responding == pc # "Responded" /\ pc' = "Responded"

\* the handshake request: a GET given to a handler that answers handshakes
HandshakeGet ==
    /\ pc # "Idle"
    /\ req.method = "GET"
    /\ Kind \in {"root", "webhook"}

Parseable(query) == \A k \in DOMAIN query : UnescapeOk(query[k])

\* the value of a handshake parameter, "" when the query does not carry it
Param(query, k) == IF k \in DOMAIN query THEN Unescape(query[k]) ELSE <<>>

HandshakeAccepted ==
    /\ Param(req.query, "hub.mode") = <<"subscribe">>
    /\ Param(req.query, "hub.verify_token") = VerificationToken

----------------------------------------------------------------------------
(* Claims about the dispatcher *)

\* C1: a POST to the callback endpoint with a valid signature and a well-formed
\* envelope whose Object has no handler in the registry is answered 200 and no
\* handler is invoked.
C1_UnregisteredAccepted ==
    (pc = "Responded" /\ CallbackPost /\ ValidSignature /\ WellFormed(req.body)
        /\ ~Registered(EventKey))
    => (resp.status = StatusOK /\ invoked = <<>>)

\* C2: the bytes decoded into the envelope are exactly the bytes buffered by
\* the body read and given to signature verification; the parse step never
\* reads the request body stream a second time.
C2_DecodesVerifiedBytes ==
    /\ reads <= 1
    /\ \A i \in 1..Len(decoded) : decoded[i] = bufBody /\ decoded[i] = req.body

\* C3: for a POST with a valid signature and a well-formed envelope whose Object
\* has a registered handler, the handler is invoked exactly once with the
\* decoded envelope before the response is produced, and the status is 200 if
\* the handler returns success and 400 if it returns an error.
C3_RegisteredInvokedOnce ==
    [][(Responding /\ CallbackPost /\ ValidSignature /\ WellFormed(req.body)
           /\ Registered(EventKey))
       => (/\ Len(invoked') = 1
           /\ invoked'[1].envelope = [Object |-> ObjectOf(req.body)]
           /\ resp'.status = IF invoked'[1].result = "nil"
                             THEN StatusOK ELSE StatusBadRequest)]_vars

\* C4: a POST whose signature verification fails (header missing, malformed or
\* digest mismatch) is answered 403 whether or not the body is a well-formed
\* envelope, and reaches neither the parse step nor a handler invocation:
\* signature checking precedes parsing and dispatch.
C4_BadSignatureForbidden ==
    /\ (sigErr \notin {"unchecked", Nil})
          => /\ pc = "Responded"
             /\ resp = WriteHeader(StatusForbidden)
             /\ decoded = <<>> /\ rb = NoEnvelope
             /\ handler = NoHandler /\ invoked = <<>>
    /\ (pc = "Responded" /\ CallbackPost /\ InvalidSignature)
          => resp.status = StatusForbidden
    /\ (CallbackPost /\ InvalidSignature)
          => pc \in {"Received", "BodyRead", "Responded"}
    /\ (decoded # <<>> \/ rb # NoEnvelope \/ handler # NoHandler \/ invoked # <<>>)
          => sigErr = Nil

C4_Witness ==
    /\ pc = "Responded" /\ CallbackPost
    /\ WellFormed(req.body)
    /\ sigErr = ErrMismatch
    /\ resp.status = StatusForbidden

\* C5: after any sequence of HandleObjectFunc calls the registry holds at most
\* one handler per key, the one passed in the most recent call for that key;
\* a valid event for the key that is dispatched after h1 and then h2 were
\* registered invokes h2 and never h1.
C5_LastRegistrationWins ==
    /\ [](\A k \in RegKeys(variant) :
             lookup(variant, objectHandlers, k[1], k[2])
                = IF Registered(k) THEN lastReg[k] ELSE NoHandler)
    /\ [][/\ (pc = "Parsed" /\ pc' # "Parsed" /\ Registered(EventKey))
               => (pc' = "Dispatched" /\ handler' = lastReg[EventKey])
          /\ (pc = "Dispatched" /\ pc' # "Dispatched")
               => (Len(invoked') = 1 /\ invoked'[1].handler = handler)
          /\ (Responding /\ CallbackPost /\ ValidSignature /\ WellFormed(req.body)
                 /\ Registered(EventKey))
               => pc = "Dispatched"]_vars

\* C6: a GET handshake with parseable parameters, hub.mode "subscribe" and
\* hub.verify_token equal to the configured VerificationToken is answered 200
\* with a body equal to the value of hub.challenge.
C6_HandshakeEchoesChallenge ==
    (pc = "Responded" /\ HandshakeGet /\ Parseable(req.query) /\ HandshakeAccepted)
    => resp = [status |-> StatusOK, body |-> Param(req.query, "hub.challenge")]

C6_Witness ==
    /\ pc = "Responded" /\ HandshakeGet /\ Parseable(req.query) /\ HandshakeAccepted
    /\ "hub.challenge" \in DOMAIN req.query
    /\ resp.body = <<"x", " ", "+">>
    /\ resp.status = StatusOK

\* C7: a GET handshake with parseable parameters whose hub.mode is not
\* "subscribe" or whose hub.verify_token differs from the configured
\* VerificationToken is answered 403 with an empty body: the challenge is never
\* echoed to a caller that did not present the matching token.
C7_HandshakeRefused ==
    (pc = "Responded" /\ HandshakeGet /\ Parseable(req.query) /\ ~HandshakeAccepted)
    => resp = [status |-> StatusForbidden, body |-> <<>>]

C7_Witness ==
    /\ pc = "Responded" /\ HandshakeGet /\ Parseable(req.query)
    /\ Param(req.query, "hub.mode") = <<"subscribe">>
    /\ Param(req.query, "hub.verify_token") # VerificationToken
    /\ Param(req.query, "hub.challenge") # <<>>
    /\ resp = [status |-> StatusForbidden, body |-> <<>>]

\* C8: a POST with a valid signature whose body fails to decode into an
\* envelope, because it is malformed JSON or lacks the Object discriminator, is
\* answered 400 and no handler is invoked; a missing discriminator never
\* proceeds to the registry lookup as a default value.
C8_UndecodableRejected ==
    (CallbackPost /\ ValidSignature /\ ~WellFormed(req.body))
    => /\ pc \notin {"Parsed", "Dispatched"}
       /\ invoked = <<>>
       /\ pc = "Responded" => resp.status = StatusBadRequest


\* the request in hand went to one of the server's own handlers
OwnHandler == pc # "Idle" /\ Kind \in {"root", "webhook", "object"}

\* C11: a request to the callback endpoint whose method is neither GET nor POST
\* is answered 403, and neither the handshake, the signature verification, the
\* parse step nor a handler runs for it.
C11_OtherMethodForbidden ==
    (pc # "Idle" /\ Kind \in {"root", "object"} /\ req.method \notin {"GET", "POST"})
    => /\ pc \in {"Received", "Responded"}
       /\ reads = 0 /\ bufBody = <<>>
       /\ sigErr = "unchecked"
       /\ decoded = <<>> /\ rb = NoEnvelope
       /\ handler = NoHandler /\ invoked = <<>>
       /\ pc = "Responded" => resp = WriteHeader(StatusForbidden)

C11_Witness ==
    /\ pc = "Responded"
    /\ Kind = "object"
    /\ req.method = "PUT"
    /\ ValidSignature /\ HandshakeAccepted
    /\ resp = WriteHeader(StatusForbidden)


\* the steps of rootHandlerFunc, webhookHandlerFunc and the handler that
\* getObjectHandlerFunc returns
HandlerStep ==
    \/ Handshake
    \/ MethodForbidden
    \/ ReadBody
    \/ CheckSignature
    \/ Parse
    \/ Dispatch
    \/ \E result \in {"nil", "err"} : Invoke(result)

\* the position of a state in Received -> BodyRead -> SignatureChecked ->
\* Parsed -> Dispatched -> Responded
Rank(p) ==
    CASE p = "Received" -> 1
      [] p = "BodyRead" -> 2
      [] p = "SignatureChecked" -> 3
      [] p = "Parsed" -> 4
      [] p = "Dispatched" -> 5
      [] p = "Responded" -> 6
      [] OTHER -> 0

ReadFailed == methodBranch(Kind, req.method) = "POST" /\ req.readErr /\ reads > 0
VerifyFailed == sigErr \notin {"unchecked", Nil}
DecodeFailed == decoded # <<>> /\ rb = NoEnvelope

\* C12: every request given to one of the server's handlers ends in Responded
\* with exactly one status out of 200, 400 and 403: short of Responded a next
\* step is always enabled and every step moves strictly forward in the state
\* order (so no step is retried and the run is finite), the response is written
\* once, the first failing step decides the status with the later steps left
\* undone, and a handler is invoked at most once.
C12_TerminatesOnce ==
    /\ [](OwnHandler =>
            /\ pc # "Responded" => resp = NoResp /\ ENABLED HandlerStep
            /\ pc = "Responded" =>
                 resp.status \in {StatusOK, StatusBadRequest, StatusForbidden}
            /\ Len(invoked) <= 1 /\ Len(decoded) <= 1
            /\ ReadFailed =>
                 /\ pc = "Responded" /\ resp = WriteHeader(StatusBadRequest)
                 /\ sigErr = "unchecked" /\ decoded = <<>> /\ invoked = <<>>
            /\ VerifyFailed =>
                 /\ pc = "Responded" /\ resp = WriteHeader(StatusForbidden)
                 /\ decoded = <<>> /\ handler = NoHandler /\ invoked = <<>>
            /\ DecodeFailed =>
                 /\ pc = "Responded" /\ resp = WriteHeader(StatusBadRequest)
                 /\ handler = NoHandler /\ invoked = <<>>)
    /\ [][OwnHandler =>
            /\ pc' # pc => \/ Rank(pc') > Rank(pc)
                           \/ pc' = "Idle" /\ (pc = "Responded" \/ crashed')
            /\ pc = "Responded" => resp' = resp \/ pc' = "Idle"
            /\ pc' = pc => reqvars' = reqvars]_vars

C12_Witness ==
    /\ OwnHandler
    /\ pc = "Responded"
    /\ Len(invoked) = 1
    /\ invoked[1].result = "err"
    /\ resp = WriteHeader(StatusBadRequest)


\* C13: a response of the server's handlers has a body only when it is the
\* answer to an accepted handshake; a POST whose signature fails verification
\* gets the same response whatever the reason (missing, malformed, mismatch),
\* and a handler's error shows in the status alone.
C13_StatusOnly ==
    (OwnHandler /\ pc = "Responded") =>
        /\ resp.body # <<>> =>
             /\ HandshakeGet /\ Parseable(req.query) /\ HandshakeAccepted
             /\ resp.status = StatusOK
        /\ VerifyFailed => resp = WriteHeader(StatusForbidden)
        /\ (invoked # <<>> /\ invoked[1].result = "err") =>
             resp = WriteHeader(StatusBadRequest)

C13_Witness ==
    /\ pc = "Responded" /\ CallbackPost
    /\ sigErr = ErrInvalid
    /\ resp = WriteHeader(StatusForbidden)


\* the whole text after the first "=" of a header
AfterFirstSeparator(sig) ==
    LET first == CHOOSE i \in 1..Len(sig) :
                     sig[i] = "=" /\ \A j \in 1..(i - 1) : sig[j] # "="
    IN SubSeq(sig, first + 1, Len(sig))

\* C14: verifySignature accepts a header that holds a "=" only if everything
\* after the header's first "=" equals the hex digest, so a header with further
\* "="-separated text after a correct digest is rejected.
C14_WholeRemainderCompared ==
    (VerifyDone /\ HasSeparator(vc.sig)) =>
        /\ (vc.res = Nil) <=>
               (AfterFirstSeparator(vc.sig) = Digest(vc.secret, vc.payload))
        /\ (\E extra \in {<<"=", "x">>} :
                vc.sig = Sign(vc.payload, vc.secret) \o extra) => vc.res # Nil


\* the registry key of the event a request carries, by the path it is sent to
KeyOf(r) == <<IF variant = "single" THEN RootPattern ELSE r.path, ObjectOf(r.body)>>

\* C15: a handler registered with HandleObjectFunc, before ListenAndServe or
\* while the server is serving, is the one a later valid POST for its object
\* (and, in the multi-pattern server, its pattern) invokes: the POST reaches
\* the callback handler and the dispatch invokes the registered handler.
C15_RegistrationHonoured ==
    [][/\ (/\ pc = "Idle" /\ pc' = "Received"
           /\ req'.method = "POST" /\ WellFormed(req'.body)
           /\ Registered(KeyOf(req')))
          => RouteKind(mux, req'.route) \in {"root", "object"}
       /\ (/\ Responding /\ CallbackPost
           /\ ValidSignature /\ WellFormed(req.body)
           /\ Registered(EventKey))
          => /\ Len(invoked') = 1
             /\ invoked'[1].handler = lastReg[EventKey]]_vars


----------------------------------------------------------------------------
(* HandleObjectFunc called from a goroutine of its own while requests are   *)
(* handled: the map assignment is an interval with a begin and an end, the  *)
(* lookup of the dispatch falls before, inside or after it                  *)

\* HandleObjectFunc enters the assignment to ws.objectHandlers
BeginHandleObjectFunc(pattern, object, h) ==
    /\ ~crashed
    /\ writing = NoWrite
    /\ writing' = [pattern |-> pattern, object |-> object, h |-> h]
    /\ UNCHANGED <<config, objectHandlers, mux, serving, crashed, lastReg,
                   reqvars, vc>>

\* the assignment is done and HandleObjectFunc returns
EndHandleObjectFunc ==
    /\ ~crashed
    /\ writing # NoWrite
    /\ objectHandlers' = Written(variant, objectHandlers, writing)
    /\ lastReg' = (<<writing.pattern, writing.object>> :> writing.h) @@ lastReg
    /\ writing' = NoWrite
    /\ UNCHANGED <<config, mux, serving, crashed, reqvars, vc>>

\* the runtime's map access finds the write flag set by the other goroutine:
\* fatal error "concurrent map read and map write"
MapFault ==
    /\ pc = "Parsed" /\ ~crashed
    /\ writing # NoWrite
    /\ Panic
    /\ UNCHANGED <<config, objectHandlers, mux, lastReg, writing, vc>>

\* signed events for the first callback path
RaceRequests(secret) ==
    {Post("/a", b, Sign(b, secret), FALSE) :
        b \in {<<"{", "P", "}">>, <<"{", "G", "}">>}}

RaceNext ==
    \/ \E k \in RegKeys(variant), h \in Handlers :
           BeginHandleObjectFunc(k[1], k[2], h)
    \/ EndHandleObjectFunc
    \/ ListenAndServe
    \/ \E r \in RaceRequests(Secret) : Receive(r)
    \/ ReadBody
    \/ CheckSignature
    \/ Parse
    \/ Dispatch
    \/ MapFault
    \/ \E result \in {"nil", "err"} : Invoke(result)
    \/ Finish

SpecRace == Init /\ [][RaceNext]_vars

\* C16: registry mutation and lookup are synchronized: in no interleaving of a
\* HandleObjectFunc call with the handling of requests does the lookup of the
\* dispatch run while an assignment to the handler map is under way.
C16_NoOverlap ==
    [][(pc = "Parsed" /\ pc' # "Parsed") => writing = NoWrite]_vars


----------------------------------------------------------------------------
(* Claims about the multi-pattern server and the registry's frame *)

\* the key the multi-pattern server dispatches the decoded event under
RoutedKey == <<req.route, rb.Object>>

\* C17: in the multi-pattern server the callback paths are independent: a
\* correctly signed, well-formed POST routed to pattern q is answered by the
\* dispatch; the dispatch of a POST routed to q with Object o takes the handler
\* registered under (q, o) and no other, and when (q, o) has none it answers
\* 200 with no handler invoked, whatever is registered for o under other
\* patterns; a handler is invoked only by a POST that passed the signature
\* verification, with the Object of its body.
C17_PatternsIndependent ==
    [][(variant = "multi" /\ CallbackPost) =>
         /\ (Responding /\ ValidSignature /\ WellFormed(req.body)) =>
              pc \in {"Parsed", "Dispatched"}
         /\ (pc = "Parsed" /\ pc' = "Dispatched") =>
              /\ Registered(RoutedKey)
              /\ handler' = lastReg[RoutedKey]
         /\ (pc = "Parsed" /\ Responding) =>
              /\ ~Registered(RoutedKey)
              /\ resp' = WriteHeader(StatusOK)
              /\ invoked' = <<>>
         /\ (pc = "Dispatched" /\ Responding) =>
              /\ sigErr = Nil /\ Kind = "object"
              /\ Len(invoked') = 1
              /\ invoked'[1].handler = handler
              /\ invoked'[1].envelope = [Object |-> ObjectOf(req.body)]]_vars

\* the event's Object has a handler under "/a" and another under "/b", and the
\* POST to "/b" invoked the latter
C17_Witness ==
    /\ variant = "multi"
    /\ pc = "Responded" /\ CallbackPost
    /\ req.route = "/b"
    /\ Registered(<<"/a", "page">>) /\ Registered(<<"/b", "page">>)
    /\ lastReg[<<"/a", "page">>] = "h1"
    /\ lastReg[<<"/b", "page">>] = "h2"
    /\ Len(invoked) = 1
    /\ invoked[1].handler = "h2"


\* the request in hand is on the handshake path of the multi-pattern server
WebhookPath == variant = "multi" /\ pc # "Idle" /\ req.path = WebhookPattern

\* C18: in the multi-pattern server the handshake path "/webhook" answers GET
\* only: a request there with another method, a POST with a valid signature
\* and a well-formed envelope included, gets 403, and no body read, signature
\* check, parse or handler invocation takes place for it.
C18_WebhookGetOnly ==
    (WebhookPath /\ req.method # "GET") =>
        /\ Kind = "webhook"
        /\ pc \in {"Received", "Responded"}
        /\ reads = 0 /\ sigErr = "unchecked" /\ decoded = <<>>
        /\ handler = NoHandler /\ invoked = <<>>
        /\ pc = "Responded" => resp = WriteHeader(StatusForbidden)

C18_Witness ==
    /\ WebhookPath
    /\ req.method = "POST"
    /\ ValidSignature /\ WellFormed(req.body) /\ ~req.readErr
    /\ Registered(<<"/a", ObjectOf(req.body)>>)
    /\ pc = "Responded"
    /\ resp = WriteHeader(StatusForbidden)


\* C19: registration cannot fail, start-up included: after any sequence of
\* HandleObjectFunc and HandleFunc calls, ListenAndServe installs its routes
\* without registering a pattern the mux already holds, so a ListenAndServe
\* step never ends in the duplicate-pattern panic.
C19_StartupCannotFail ==
    [][ListenAndServe => (~crashed' /\ serving')]_vars


\* every key a lookup can be made with, registered or not
KeySpace == ({RootPattern, WebhookPattern} \cup Paths) \X (Objects \cup {""})

\* the registry entry for a key
Entry(oh, k) == lookup(variant, oh, k[1], k[2])

\* the two keys name the same entry (the single-route registry has no pattern)
SameEntry(k1, k2) == IF variant = "single" THEN k1[2] = k2[2] ELSE k1 = k2

\* C20: frame conditions. A HandleObjectFunc call for key k sets the entry for
\* k and leaves every other registry entry unchanged; no step changes Secret,
\* AccessToken or VerificationToken; and every step of handling a request,
\* whatever its method and outcome, leaves the registry unchanged.
C20_Frame ==
    [][/\ <<Secret, AccessToken, VerificationToken>>'
             = <<Secret, AccessToken, VerificationToken>>
       /\ \A k \in RegKeys(variant), h \in Handlers :
             HandleObjectFunc(k[1], k[2], h) =>
                /\ Entry(objectHandlers', k) = h
                /\ \A k2 \in KeySpace :
                      ~SameEntry(k, k2) =>
                          Entry(objectHandlers', k2) = Entry(objectHandlers, k2)
       /\ reqvars' # reqvars => objectHandlers' = objectHandlers]_vars

\* all three keys of the multi-pattern server are registered, each entry is
\* the handler last registered for it, and a request has been dispatched
C20_Witness ==
    /\ variant = "multi"
    /\ DOMAIN lastReg = RegKeys(variant)
    /\ \A k \in DOMAIN lastReg : Entry(objectHandlers, k) = lastReg[k]
    /\ lastReg[<<"/a", "page">>] # lastReg[<<"/a", "group">>]
    /\ pc = "Responded"
    /\ invoked # <<>>

====
